---- MODULE Spec2Model ----
(***************************************************************************)
(* wit-room-scrape: the session bootstrap, the sequential room requests,   *)
(* the row-scanning timetable parser and the fold into freeRoomTable, as   *)
(* written in main() of room_scrape.go.  The later variant of the file     *)
(* (unnamed/part_001) differs in the room pattern and in calling           *)
(* os.Exit(1) from both OnError handlers; the variable build says which of *)
(* the two is running.                                                     *)
(***************************************************************************)
EXTENDS Integers, Sequences, FiniteSets, TLC

\* ------------------------------------------------------------------ bounds

\* Room options on the landing page.
MaxOptions == 2
\* Grid rows of the one response document of the grid specification.
MaxGridRows == 7

\* --------------------------------------------------------- program constants

days == <<"Monday", "Tuesday", "Wednesday", "Thursday", "Friday">>

times == <<"09:15", "10:15", "11:15", "12:15", "13:15", "14:15", "15:15", "16:15", "17:15">>

weekOffset == 0

Builds == {"room_scrape", "part_001"}

\* regexp.Compile("^IT101$") and regexp.Compile("^IT1[0-9]{2}$"), tabulated
\* over the room option values the landing pages of the model carry.
RoomValues == {"IT101", "IT102", "ITG01", "B12"}

roomRegexp(b) ==
    IF b = "room_scrape" THEN {"IT101"} ELSE {"IT101", "IT102"}

MatchString(b, roomName) == roomName \in roomRegexp(b)

\* ------------------------------------------------------------ small helpers

Range(s) == {s[i] : i \in 1..Len(s)}

\* slices.Contains
Contains(s, x) == \E i \in 1..Len(s) : s[i] = x

\* All sequences over S of length at most n.
SeqUpTo(S, n) == UNION {[1..k -> S] : k \in 0..n}

\* A Go map: a function whose domain is the set of keys present.
EmptyMap == [k \in {} |-> <<>>]

\* m[k] of a map of slices: the nil slice when the key is absent.
MapGet(m, k) == IF k \in DOMAIN m THEN m[k] ELSE <<>>

\* m[k] = append(m[k], x)
MapAppend(m, k, x) ==
    [kk \in (DOMAIN m) \cup {k} |-> IF kk = k THEN Append(MapGet(m, k), x) ELSE m[kk]]

\* ----------------------------------------------------- strconv.Atoi / Itoa
\* A string that is converted is a sequence of one-character strings.

Digits == <<"0", "1", "2", "3", "4", "5", "6", "7", "8", "9">>

DigitVal(c) == (CHOOSE i \in 1..10 : Digits[i] = c) - 1

IsDigits(s) == Len(s) > 0 /\ \A i \in 1..Len(s) : Contains(Digits, s[i])

RECURSIVE DigitsVal(_)
DigitsVal(s) ==
    IF Len(s) = 0 THEN 0
    ELSE 10 * DigitsVal(SubSeq(s, 1, Len(s) - 1)) + DigitVal(s[Len(s)])

HasSign(s) == Len(s) > 0 /\ s[1] \in {"+", "-"}

\* err == nil
AtoiOk(s) == IF HasSign(s) THEN IsDigits(Tail(s)) ELSE IsDigits(s)

Atoi(s) ==
    IF HasSign(s)
    THEN (IF s[1] = "-" THEN 0 - DigitsVal(Tail(s)) ELSE DigitsVal(Tail(s)))
    ELSE DigitsVal(s)

RECURSIVE NatDigits(_)
NatDigits(n) ==
    IF n < 10 THEN <<Digits[n + 1]>>
    ELSE Append(NatDigits(n \div 10), Digits[(n % 10) + 1])

Itoa(n) == IF n < 0 THEN <<"-">> \o NatDigits(0 - n) ELSE NatDigits(n)

\* ------------------------------------------------------------- url.Values

FixedFields ==
    {"__EVENTTARGET", "__EVENTARGUMENT", "__LASTFOCUS", "hProgram", "hStudentcount",
     "cboSchool", "CboDept", "CboStartTime", "CboEndTime", "BtnRetrieve"}

TokenFields == {"__VIEWSTATE", "__VIEWSTATEGENERATOR", "__EVENTVALIDATION"}

Fields == FixedFields \cup TokenFields \cup {"CboWeeks", "CboLocation"}

\* v.Add(key, value)
Add(v, key, value) == MapAppend(v, key, value)

\* Set written as Add: the value joins the ones already there.
SetAsAdd(v, key, value) == MapAppend(v, key, value)

\* v.Set(key, value)
Set(v, key, value) == [kk \in (DOMAIN v) \cup {key} |-> IF kk = key THEN <<value>> ELSE v[kk]]

\* v.Encode(): every value of every key; a key without values is not sent.
Encode(v) == [k \in {kk \in DOMAIN v : Len(v[kk]) > 0} |-> v[k]]

\* The ten Add calls that build roomPostQueryParams before any request.
InitialQueryParams ==
    [k \in FixedFields |->
        CASE k = "cboSchool" -> <<"%">>
          [] k = "CboDept" -> <<"%">>
          [] k = "CboStartTime" -> <<"1">>
          [] k = "CboEndTime" -> <<"9">>
          [] k = "BtnRetrieve" -> <<"Generate Timetable">>
          [] OTHER -> <<"">>]

\* ----------------------------------------------------- the response document
\* A header cell is its text split on " ": <<>> is the empty text, which is
\* what ChildText gives for a cell that is missing or renders empty.
\* A grid row is the text of its three cells.

Row(dayName, subject, time) == [dayName |-> dayName, subject |-> subject, time |-> time]

Marker(d) == Row(d, "", "")

Subject(t) == Row("", "Maths", t)

Free(t) == Row("", "", t)

IsMarker(r) == Contains(days, r.dayName)

IsSubject(r) == ~IsMarker(r) /\ r.subject # ""

IsFree(r) == ~IsMarker(r) /\ r.subject = ""

Header(date, room, week) == [date |-> date, room |-> room, week |-> week]

DateCell == <<"Date:", "04/03/2024">>

WeekCell == <<"Week", "No:", "27">>

RoomCell(room) == <<"Room", "No:", room>>

\* ------------------------------------------------------------ the Timetable

\* Timetable{Error: false, Empty: true, FreeTimes: make(map[string][]string)}
NewTimetable ==
    [Error |-> FALSE, Empty |-> TRUE, Date |-> "", Room |-> "", Week |-> "",
     FreeTimes |-> EmptyMap]

\* NewParse with the day cursor on Monday from the start.
NewParseCursorAtZero == [panic |-> FALSE, tt |-> NewTimetable, currentDay |-> 0]

\* The parse of one document: the record being built, the day cursor, and
\* whether an index expression went out of range (a run-time panic).
NewParse == [panic |-> FALSE, tt |-> NewTimetable, currentDay |-> -1]

\* s[i] of a Go slice is in range
InRange(s, i) == 0 <= i /\ i < Len(s)

\* s[i], Go's index from 0
At(s, i) == s[i + 1]

HeaderDate(st, cell) ==
    IF cell # <<>>
    THEN IF InRange(cell, 1) THEN [st EXCEPT !.tt.Date = At(cell, 1)]
         ELSE [st EXCEPT !.panic = TRUE]
    ELSE [st EXCEPT !.tt.Error = TRUE]

HeaderRoom(st, cell) ==
    IF cell # <<>>
    THEN IF InRange(cell, 2) THEN [st EXCEPT !.tt.Room = At(cell, 2)]
         ELSE [st EXCEPT !.panic = TRUE]
    ELSE [st EXCEPT !.tt.Error = TRUE]

HeaderWeek(st, cell) ==
    IF cell # <<>>
    THEN IF InRange(cell, 2) THEN [st EXCEPT !.tt.Week = At(cell, 2)]
         ELSE [st EXCEPT !.panic = TRUE]
    ELSE [st EXCEPT !.tt.Error = TRUE]

\* A statement that follows a panic is not executed.
Then(st, next) == IF st.panic THEN st ELSE next

\* ParseHeader giving up at the first empty cell.
ParseHeaderStopAtEmpty(st, h) ==
    LET a == HeaderDate(st, h.date)
        b == IF a.tt.Error THEN a ELSE Then(a, HeaderRoom(a, h.room))
    IN  IF b.tt.Error THEN b ELSE Then(b, HeaderWeek(b, h.week))

\* The callback on table:nth-child(1).
ParseHeader(st, h) ==
    LET a == HeaderDate(st, h.date)
        b == Then(a, HeaderRoom(a, h.room))
    IN  Then(b, HeaderWeek(b, h.week))

\* currentDay++; return
DayMarkerRow(st) == [st EXCEPT !.currentDay = @ + 1]

\* SubjectRow flipping Empty instead of clearing it.
SubjectRowToggle(st) == [st EXCEPT !.tt.Empty = ~@]

\* timetable.Empty = false; return
SubjectRow(st) == [st EXCEPT !.tt.Empty = FALSE]

\* FreeRow with the day taken one past the cursor.
FreeRowNextDay(st, time) ==
    IF st.currentDay = -1 THEN [st EXCEPT !.tt.Error = TRUE]
    ELSE IF InRange(days, st.currentDay + 1)
         THEN [st EXCEPT !.tt.FreeTimes = MapAppend(@, At(days, st.currentDay + 1), time)]
         ELSE [st EXCEPT !.panic = TRUE]

\* FreeRow assigning the slot list instead of appending to it.
FreeRowOverwrite(st, time) ==
    IF st.currentDay = -1 THEN [st EXCEPT !.tt.Error = TRUE]
    ELSE IF InRange(days, st.currentDay)
         THEN [st EXCEPT !.tt.FreeTimes =
                  [d \in (DOMAIN @) \cup {At(days, st.currentDay)} |->
                      IF d = At(days, st.currentDay) THEN <<time>> ELSE @[d]]]
         ELSE [st EXCEPT !.panic = TRUE]

\* FreeRow with key and value exchanged: the day filed under the time.
FreeRowKeyByTime(st, time) ==
    IF st.currentDay = -1 THEN [st EXCEPT !.tt.Error = TRUE]
    ELSE IF InRange(days, st.currentDay)
         THEN [st EXCEPT !.tt.FreeTimes = MapAppend(@, time, At(days, st.currentDay))]
         ELSE [st EXCEPT !.panic = TRUE]

\* FreeRow recording nothing once the record carries Error.
FreeRowUnlessError(st, time) ==
    IF st.tt.Error THEN st
    ELSE IF st.currentDay = -1 THEN [st EXCEPT !.tt.Error = TRUE]
    ELSE IF InRange(days, st.currentDay)
         THEN [st EXCEPT !.tt.FreeTimes = MapAppend(@, At(days, st.currentDay), time)]
         ELSE [st EXCEPT !.panic = TRUE]

\* switch currentDay { case -1: ...; default: ... days[currentDay] ... }
FreeRow(st, time) ==
    IF st.currentDay = -1 THEN [st EXCEPT !.tt.Error = TRUE]
    ELSE IF InRange(days, st.currentDay)
         THEN [st EXCEPT !.tt.FreeTimes = MapAppend(@, At(days, st.currentDay), time)]
         ELSE [st EXCEPT !.panic = TRUE]

\* RowStep moving the cursor to the weekday a marker row names.
RowStepByLabel(st, r) ==
    IF Contains(days, r.dayName)
    THEN [st EXCEPT !.currentDay = (CHOOSE i \in 1..Len(days) : days[i] = r.dayName) - 1]
    ELSE IF r.subject # "" THEN SubjectRow(st)
    ELSE FreeRow(st, r.time)

\* The callback on tr:not(:first-child).
RowStep(st, r) ==
    IF Contains(days, r.dayName) THEN DayMarkerRow(st)
    ELSE IF r.subject # "" THEN SubjectRow(st)
    ELSE FreeRow(st, r.time)

RECURSIVE ScanRows(_, _)
\* timetableElement.ForEach("tr:not(:first-child)", ...): the row callback
\* on each row in document order, up to a panic.
ScanRows(st, rows) ==
    IF rows = <<>> \/ st.panic THEN st
    ELSE ScanRows(RowStep(st, Head(rows)), Tail(rows))

\* The div#divTT handler on one document: a new Timetable, the header table,
\* then currentDay := -1 and the rows of the grid.
ParseDocument(h, rows) ==
    LET a == ParseHeader([panic |-> FALSE, tt |-> NewTimetable, currentDay |-> -1], h)
    IN  IF a.panic THEN a ELSE ScanRows([a EXCEPT !.currentDay = -1], rows)

\* ------------------------------------------------------------ the aggregate

\* m[k] = append([]string{x}, m[k]...)
MapPrepend(m, k, x) ==
    [kk \in (DOMAIN m) \cup {k} |-> IF kk = k THEN <<x>> \o MapGet(m, k) ELSE m[kk]]

RECURSIVE FoldTimesPrepend(_, _, _, _)
\* FoldTimes putting the room at the front of the bucket.
FoldTimesPrepend(table, day, freeTimes, room) ==
    IF freeTimes = <<>> THEN table
    ELSE LET inner == IF day \in DOMAIN table THEN table[day] ELSE EmptyMap
             next == [d \in (DOMAIN table) \cup {day} |->
                         IF d = day THEN MapPrepend(inner, Head(freeTimes), room)
                         ELSE table[d]]
         IN  FoldTimesPrepend(next, day, Tail(freeTimes), room)

RECURSIVE FoldTimes(_, _, _, _)
\* for _, time := range timetable.FreeTimes[day] { ... }
FoldTimes(table, day, freeTimes, room) ==
    IF freeTimes = <<>> THEN table
    ELSE LET inner == IF day \in DOMAIN table THEN table[day] ELSE EmptyMap
             next == [d \in (DOMAIN table) \cup {day} |->
                         IF d = day THEN MapAppend(inner, Head(freeTimes), room)
                         ELSE table[d]]
         IN  FoldTimes(next, day, Tail(freeTimes), room)

RECURSIVE FoldDays(_, _, _)
\* for _, day := range days { ... }, from the i-th day on
FoldDays(table, tt, i) ==
    IF i > Len(days) THEN table
    ELSE FoldDays(FoldTimes(table, days[i], MapGet(tt.FreeTimes, days[i]), tt.Room), tt, i + 1)

RECURSIVE CountFreeDays(_, _)
\* CountFreeTimes counting a day with slots once, whatever their number.
CountFreeDays(tt, i) ==
    IF i > Len(days) THEN 0
    ELSE (IF Len(MapGet(tt.FreeTimes, days[i])) > 0 THEN 1 ELSE 0) + CountFreeDays(tt, i + 1)

RECURSIVE CountFreeTimes(_, _)
CountFreeTimes(tt, i) ==
    IF i > Len(days) THEN 0
    ELSE Len(MapGet(tt.FreeTimes, days[i])) + CountFreeTimes(tt, i + 1)

NewCounters == [timetableCount |-> 0, errorCount |-> 0, emptyTimetableCount |-> 0, freeTimesCount |-> 0]

\* FoldCounters assigning timetableCount instead of incrementing it.
FoldCountersAssign(c, tt) ==
    [timetableCount |-> 1,
     errorCount |-> c.errorCount + (IF tt.Error THEN 1 ELSE 0),
     emptyTimetableCount |-> c.emptyTimetableCount + (IF tt.Empty THEN 1 ELSE 0),
     freeTimesCount |-> c.freeTimesCount + CountFreeTimes(tt, 1)]

\* One iteration of for _, timetable := range timetableList.
FoldCounters(c, tt) ==
    [timetableCount |-> c.timetableCount + 1,
     errorCount |-> c.errorCount + (IF tt.Error THEN 1 ELSE 0),
     emptyTimetableCount |-> c.emptyTimetableCount + (IF tt.Empty THEN 1 ELSE 0),
     freeTimesCount |-> c.freeTimesCount + CountFreeTimes(tt, 1)]

\* FoldTimetable running the loop over the days twice for a record.
FoldTimetableTwice(table, tt) == FoldDays(FoldDays(table, tt, 1), tt, 1)

\* FoldTimetable leaving a record that carries Error out of the table.
FoldTimetableSkipError(table, tt) == IF tt.Error THEN table ELSE FoldDays(table, tt, 1)

FoldTimetable(table, tt) == FoldDays(table, tt, 1)

RECURSIVE FoldList(_, _)
\* for _, timetable := range timetableList { ... }, the whole loop
FoldList(acc, list) ==
    IF list = <<>> THEN acc
    ELSE FoldList([table |-> FoldTimetable(acc.table, Head(list)),
                   counters |-> FoldCounters(acc.counters, Head(list))], Tail(list))

\* The table and the four counters main() computes from a list of records.
Aggregate(list) == FoldList([table |-> EmptyMap, counters |-> NewCounters], list)

\* -------------------------------------------------------------- the output

\* SliceIndex(len(times), func(i int) bool { return times[i] == freeTime })
SliceIndex(s, x) ==
    IF Contains(s, x) THEN (CHOOSE i \in 1..Len(s) : s[i] = x /\ \A j \in 1..(i - 1) : s[j] # x) - 1
    ELSE -1

\* asciiTableData[indexOfTime][1+dayIdx] is indexed for every time key of the table.
AsciiFaults(table) ==
    \E d \in DOMAIN table : \E t \in DOMAIN table[d] : ~InRange(times, SliceIndex(times, t))

\* The cells of asciiTableData that the loop over days fills, by row and column.
AsciiCells(table) ==
    [c \in {<<SliceIndex(times, t), 1 + (SliceIndex(days, d))>> :
                <<d, t>> \in {x \in (DOMAIN table) \X Range(times) : x[2] \in DOMAIN table[x[1]]}}
        |-> table[At(days, c[2] - 1)][At(times, c[1])]]

\* ------------------------------------------------------------------- state

VARIABLES
    build,                \* which variant of main() runs
    pc,                   \* where main() and the handler it is blocked in stand
    roomPostQueryParams,  \* the url.Values shared by every room request
    page,                 \* the landing page; received says whether the GET was answered
    optIdx,               \* the room option the ForEach of the body handler is at
    inflight,             \* requests issued and not yet answered or failed
    sent,                 \* the room POSTs issued, in order: room and encoded body
    completed,            \* room requests whose Request call has returned
    header,               \* the header cells of the current response
    grid,                 \* the rows of the current response scanned so far
    timetable,            \* the Timetable the div#divTT handler is building
    currentDay,           \* the day cursor of the grid callback
    timetableList,
    origin,               \* for each record of timetableList, the number of the POST it answers
    responses,            \* room POSTs answered with a document
    aggIdx,               \* the record the aggregation loop is at
    counters,
    freeRoomTable,
    output                \* what has been written: JSON file, ASCII table

vars ==
    <<build, pc, roomPostQueryParams, page, optIdx, inflight, sent, completed, header, grid,
      timetable, currentDay, timetableList, origin, responses, aggIdx, counters, freeRoomTable,
      output>>

NoPage == [received |-> FALSE, hidden |-> <<>>, week |-> <<>>, options |-> <<>>]

NoOutput == [json |-> FALSE, ascii |-> FALSE, cells |-> EmptyMap]

\* No response document is being read.
NoHeader == [date |-> <<>>, room |-> <<>>, week |-> <<>>]

InitOf(BuildSet) ==
    /\ build \in BuildSet
    /\ pc = "visit"
    /\ roomPostQueryParams = InitialQueryParams
    /\ page = NoPage
    /\ optIdx = 0
    /\ inflight = {}
    /\ sent = <<>>
    /\ completed = 0
    /\ header = NoHeader
    /\ grid = <<>>
    /\ timetable = NewTimetable
    /\ currentDay = -1
    /\ timetableList = <<>>
    /\ origin = <<>>
    /\ responses = 0
    /\ aggIdx = 0
    /\ counters = NewCounters
    /\ freeRoomTable = EmptyMap
    /\ output = NoOutput

parsingVars == <<header, grid, timetable, currentDay>>

listVars == <<timetableList, origin, responses>>

foldVars == <<aggIdx, counters, freeRoomTable, output>>

\* ----------------------------------------------------------- the bootstrap

\* initCollector.Visit(roomTimetableUrl)
Visit ==
    /\ pc = "visit"
    /\ inflight' = inflight \cup {[method |-> "GET"]}
    /\ pc' = "get"
    /\ UNCHANGED <<build, roomPostQueryParams, page, optIdx, sent, completed,
                   parsingVars, listVars, foldVars>>

\* What initCollector.OnError leaves main() doing.
AfterInitError(b) == IF b = "part_001" THEN "exit" ELSE "aggregate"

\* The GET fails: initCollector.OnError, then Visit returns.
BootstrapFail ==
    /\ pc = "get"
    /\ inflight' = inflight \ {[method |-> "GET"]}
    /\ pc' = AfterInitError(build)
    /\ aggIdx' = 1
    /\ UNCHANGED <<build, roomPostQueryParams, page, optIdx, sent, completed,
                   parsingVars, listVars, counters, freeRoomTable, output>>

\* AddHidden sending an empty value for a token the page does not carry.
AddHiddenOrBlank(v, inputs) ==
    [k \in (DOMAIN v) \cup TokenFields |->
        IF k \in TokenFields
        THEN LET named == {i \in 1..Len(inputs) : inputs[i].name = k}
             IN  IF named = {} THEN <<"">>
                 ELSE MapGet(v, k) \o <<inputs[CHOOSE i \in named : TRUE].value>>
        ELSE v[k]]

RECURSIVE AddHidden(_, _)
\* bodyElement.ForEach("input[type='hidden']", ...)
AddHidden(v, inputs) ==
    IF inputs = <<>> THEN v
    ELSE LET in == Head(inputs)
         IN  AddHidden(IF in.name \in TokenFields THEN Add(v, in.name, in.value) ELSE v,
                       Tail(inputs))

\* AddWeekWith adding the raw week as well as the shifted one.
AddWeekTwice(v, week, offset) ==
    IF ~AtoiOk(week) THEN Add(v, "CboWeeks", week)
    ELSE Add(Add(v, "CboWeeks", week), "CboWeeks", Itoa(Atoi(week) + offset))

\* weekInt, err := strconv.Atoi(week); the two branches add CboWeeks
AddWeekWith(v, week, offset) ==
    IF ~AtoiOk(week) THEN Add(v, "CboWeeks", week)
    ELSE Add(v, "CboWeeks", Itoa(Atoi(week) + offset))

AddWeek(v, week) == AddWeekWith(v, week, weekOffset)

\* The GET is answered: the body handler of initCollector up to its loop
\* over the room options.
ReceiveLandingPage(Pages) ==
    /\ pc = "get"
    /\ \E pg \in Pages :
        /\ page' = pg
        /\ roomPostQueryParams' = AddWeek(AddHidden(roomPostQueryParams, pg.hidden), pg.week)
    /\ inflight' = inflight \ {[method |-> "GET"]}
    /\ optIdx' = 1
    /\ pc' = "options"
    /\ UNCHANGED <<build, sent, completed, parsingVars, listVars, foldVars>>

\* ------------------------------------------------------------ the dispatch

\* An asynchronous collector: Request returns at once and the loop goes on.
AfterRequestAsync == "options"

\* Where the option loop stands once roomCollector.Request has been called:
\* the collectors are synchronous, the call returns after the handlers ran.
AfterRequest == "post"

\* A room option that matches: Set CboLocation, then roomCollector.Request.
DispatchRoom ==
    /\ pc = "options"
    /\ optIdx <= Len(page.options)
    /\ MatchString(build, page.options[optIdx])
    /\ LET roomName == page.options[optIdx]
           params == Set(roomPostQueryParams, "CboLocation", roomName)
       IN  /\ roomPostQueryParams' = params
           /\ sent' = Append(sent, [room |-> roomName, body |-> Encode(params)])
           /\ inflight' = inflight \cup {[method |-> "POST", n |-> Len(sent) + 1]}
    /\ pc' = AfterRequest
    /\ optIdx' = IF AfterRequest = "post" THEN optIdx ELSE optIdx + 1
    /\ UNCHANGED <<build, page, completed, parsingVars, listVars, foldVars>>

\* A room option that does not match the pattern.
SkipOption ==
    /\ pc = "options"
    /\ optIdx <= Len(page.options)
    /\ ~MatchString(build, page.options[optIdx])
    /\ optIdx' = optIdx + 1
    /\ UNCHANGED <<build, pc, roomPostQueryParams, page, inflight, sent, completed,
                   parsingVars, listVars, foldVars>>

\* What roomCollector.OnError leaves main() doing.
AfterRoomError(b) == IF b = "part_001" THEN "exit" ELSE "options"

\* The POST times out or fails: roomCollector.OnError, Request returns err,
\* the option callback returns.
RoomRequestFail ==
    /\ pc = "post"
    /\ inflight # {}
    /\ inflight' = {}
    /\ completed' = completed + 1
    /\ pc' = AfterRoomError(build)
    /\ optIdx' = optIdx + 1
    /\ UNCHANGED <<build, roomPostQueryParams, page, sent, parsingVars, listVars, foldVars>>

\* The POST is answered with a document that has div#divTT: the handler
\* makes the Timetable and reads the header table.
ReceiveTimetable(Headers) ==
    /\ pc = "post"
    /\ inflight # {}
    /\ inflight' = {}
    /\ \E h \in Headers :
        LET st == ParseHeader(NewParse, h)
        IN  /\ timetable' = st.tt
            /\ currentDay' = st.currentDay
            /\ pc' = IF st.panic THEN "panic" ELSE "rows"
            /\ header' = h
    /\ grid' = <<>>
    /\ responses' = responses + 1
    /\ UNCHANGED <<build, roomPostQueryParams, page, optIdx, sent, completed,
                   timetableList, origin, foldVars>>

\* The POST is answered with a document that has no div#divTT: the OnHTML
\* callback is not called, Request returns nil and the option callback ends.
ReceiveNoTimetable ==
    /\ pc = "post"
    /\ inflight # {}
    /\ inflight' = {}
    /\ responses' = responses + 1
    /\ completed' = completed + 1
    /\ optIdx' = optIdx + 1
    /\ pc' = "options"
    /\ UNCHANGED <<build, roomPostQueryParams, page, sent, parsingVars, timetableList, origin,
                   foldVars>>

\* One row of table:nth-child(2) reaches the row callback.
ScanRow(RowSet, Prefixes) ==
    /\ pc = "rows"
    /\ \E r \in RowSet :
        /\ Append(grid, r) \in Prefixes
        /\ LET st == RowStep([panic |-> FALSE, tt |-> timetable, currentDay |-> currentDay], r)
           IN  /\ timetable' = st.tt
               /\ currentDay' = st.currentDay
               /\ pc' = IF st.panic THEN "panic" ELSE "rows"
        /\ grid' = Append(grid, r)
    /\ UNCHANGED <<build, roomPostQueryParams, page, optIdx, inflight, sent, completed,
                   header, listVars, foldVars>>

\* The rows are exhausted: timetableList = append(timetableList, timetable),
\* the handler and Request return, the option callback ends.  The locals of
\* the handler (timetable, currentDay) and the document end with it.
EndOfRows(Documents) ==
    /\ pc = "rows"
    /\ grid \in Documents
    /\ timetableList' = Append(timetableList, timetable)
    /\ origin' = Append(origin, Len(sent))
    /\ completed' = completed + 1
    /\ optIdx' = optIdx + 1
    /\ pc' = "options"
    /\ header' = NoHeader
    /\ grid' = <<>>
    /\ timetable' = NewTimetable
    /\ currentDay' = -1
    /\ UNCHANGED <<build, roomPostQueryParams, page, inflight, sent, responses, foldVars>>

\* The option loop ends, the body handler and Visit return; both Wait calls
\* return at once.
BootstrapDone ==
    /\ pc = "options"
    /\ optIdx > Len(page.options)
    /\ inflight = {}
    /\ pc' = "aggregate"
    /\ aggIdx' = 1
    /\ UNCHANGED <<build, roomPostQueryParams, page, optIdx, inflight, sent, completed,
                   parsingVars, listVars, counters, freeRoomTable, output>>

\* ----------------------------------------------------- aggregate and output

\* One iteration of for _, timetable := range timetableList.
AggregateTimetable ==
    /\ pc = "aggregate"
    /\ aggIdx <= Len(timetableList)
    /\ counters' = FoldCounters(counters, timetableList[aggIdx])
    /\ freeRoomTable' = FoldTimetable(freeRoomTable, timetableList[aggIdx])
    /\ aggIdx' = aggIdx + 1
    /\ UNCHANGED <<build, pc, roomPostQueryParams, page, optIdx, inflight, sent, completed,
                   parsingVars, listVars, output>>

\* json.Marshal, json.MarshalIndent and os.WriteFile of freeRoomTable.
WriteJSON ==
    /\ pc = "aggregate"
    /\ aggIdx > Len(timetableList)
    /\ output' = [output EXCEPT !.json = TRUE]
    /\ pc' = "ascii"
    /\ UNCHANGED <<build, roomPostQueryParams, page, optIdx, inflight, sent, completed,
                   parsingVars, listVars, aggIdx, counters, freeRoomTable>>

\* The ASCII table: the rows are filled, then rendered.
RenderASCII ==
    /\ pc = "ascii"
    /\ IF AsciiFaults(freeRoomTable)
       THEN pc' = "panic" /\ output' = output
       ELSE pc' = "done" /\ output' = [output EXCEPT !.ascii = TRUE, !.cells = AsciiCells(freeRoomTable)]
    /\ UNCHANGED <<build, roomPostQueryParams, page, optIdx, inflight, sent, completed,
                   parsingVars, listVars, aggIdx, counters, freeRoomTable>>

\* ------------------------------------------------ inputs and specifications

ViewState == [name |-> "__VIEWSTATE", value |-> "dDwtMTI"]

ViewStateGenerator == [name |-> "__VIEWSTATEGENERATOR", value |-> "CA0B0334"]

EventValidation == [name |-> "__EVENTVALIDATION", value |-> "wEWBQK"]

AllTokens == <<ViewState, ViewStateGenerator, EventValidation>>

LandingPage(hidden, week, options) ==
    [received |-> TRUE, hidden |-> hidden, week |-> week, options |-> options]

\* The room option lists: every list of one or two options over three
\* values, and the longer lists over two of them.
OptionLists ==
    {o \in SeqUpTo({"IT101", "IT102", "B12"}, MaxOptions) : Len(o) <= 2}
    \cup SeqUpTo({"IT101", "B12"}, MaxOptions)

\* Landing pages: the hidden inputs and the week vary for one room, the room
\* options vary for a complete form.
Pages ==
    {LandingPage(h, w, <<"IT101">>) :
        h \in {AllTokens, <<>>, <<ViewState, EventValidation>>},
        w \in {<<"3", "4">>, <<"a", "b">>, <<>>}}
    \cup {LandingPage(AllTokens, <<"3", "4">>, o) : o \in OptionLists}
    \cup {LandingPage(<<>>, <<>>, <<>>)}

Headers == {Header(DateCell, c, WeekCell) : c \in {<<>>, RoomCell("IT101"), RoomCell("IT102")}}

\* The grids a room response of the pipeline specification can carry.
SampleGrids ==
    { <<>>,
      <<Marker("Monday"), Free("09:15")>>,
      <<Marker("Monday"), Free("09:15"), Subject("10:15"), Free("11:15")>>,
      <<Marker("Monday"), Free("09:15"), Free("09:15")>>,
      <<Free("09:15"), Marker("Monday"), Free("10:15")>> }

PrefixesOf(G) == UNION {{SubSeq(g, 1, k) : k \in 0..Len(g)} : g \in G}

SampleRows == UNION {Range(g) : g \in SampleGrids}

Init == InitOf(Builds)

Next ==
    \/ Visit
    \/ BootstrapFail
    \/ ReceiveLandingPage(Pages)
    \/ DispatchRoom
    \/ SkipOption
    \/ RoomRequestFail
    \/ ReceiveTimetable(Headers)
    \/ ReceiveNoTimetable
    \/ ScanRow(SampleRows, PrefixesOf(SampleGrids))
    \/ EndOfRows(SampleGrids)
    \/ BootstrapDone
    \/ AggregateTimetable
    \/ WriteJSON
    \/ RenderASCII

Spec == Init /\ [][Next]_vars

\* The pipeline with progress: every request is answered or fails within the
\* request timeout of the collectors, and main() runs on while it can.
SpecLive == Init /\ [][Next]_vars /\ WF_vars(Next)

\* The grid specification: one room, a well-formed header, and every grid of
\* at most MaxGridRows rows over GridRows.

GridPages == {LandingPage(AllTokens, <<"3", "4">>, <<"B12", "IT101">>)}

GridHeaders == {Header(DateCell, RoomCell("IT101"), WeekCell)}

GridRows == {Marker(d) : d \in Range(days)} \cup {Subject("10:15"), Free("09:15"), Free("11:15")}

\* The number of day-marker rows among the first n rows of g.
MarkersBefore(g, n) == Cardinality({j \in 1..n : IsMarker(g[j])})

\* A marker row is labelled with the weekday that is due (the k-th marker
\* with the k-th weekday) or with "Monday": the grids in weekday order, the
\* grids that repeat a label, and the grids with more markers than weekdays.
LabelsDueOrMonday(g) ==
    \A i \in 1..Len(g) :
        IsMarker(g[i]) =>
            \/ g[i].dayName = "Monday"
            \/ /\ InRange(days, MarkersBefore(g, i - 1))
               /\ g[i].dayName = At(days, MarkersBefore(g, i - 1))

AllGrids == {g \in Seq(GridRows) : Len(g) <= MaxGridRows /\ LabelsDueOrMonday(g)}

\* The handler of div#divTT is the same text in both variants of main():
\* the grids are run through the one of room_scrape.go.
InitGrid == InitOf({"room_scrape"})

NextGrid ==
    \/ Visit
    \/ BootstrapFail
    \/ ReceiveLandingPage(GridPages)
    \/ DispatchRoom
    \/ SkipOption
    \/ RoomRequestFail
    \/ ReceiveTimetable(GridHeaders)
    \/ ScanRow(GridRows, AllGrids)
    \/ EndOfRows(AllGrids)
    \/ BootstrapDone
    \/ AggregateTimetable
    \/ WriteJSON
    \/ RenderASCII

SpecGrid == InitGrid /\ [][NextGrid]_vars

\* The header specification: one room, every header whose cells are each
\* empty, well formed or a text with fewer space-separated tokens than the
\* index read from it, and the grids of the pipeline specification with one
\* more whose free row shows a time after the last of the times list.

AllHeaders ==
    {Header(d, r, w) : d \in {<<>>, DateCell, <<"04/03/2024">>},
                       r \in {<<>>, RoomCell("IT101"), <<"Room", "IT101">>},
                       w \in {<<>>, WeekCell, <<"27">>}}

HeaderGrids == SampleGrids \cup {<<Marker("Monday"), Free("18:15")>>}

HeaderRows == UNION {Range(g) : g \in HeaderGrids}

InitHeader == InitOf(Builds)

NextHeader ==
    \/ Visit
    \/ BootstrapFail
    \/ ReceiveLandingPage(GridPages)
    \/ DispatchRoom
    \/ SkipOption
    \/ RoomRequestFail
    \/ ReceiveTimetable(AllHeaders)
    \/ ReceiveNoTimetable
    \/ ScanRow(HeaderRows, PrefixesOf(HeaderGrids))
    \/ EndOfRows(HeaderGrids)
    \/ BootstrapDone
    \/ AggregateTimetable
    \/ WriteJSON
    \/ RenderASCII

SpecHeader == InitHeader /\ [][NextHeader]_vars

\* ------------------------------------------------------------------ claims

\* What a grid says, read by its labels: the label of the closest marker row
\* before row i, "" when there is none.
LastMarker(g, i) ==
    IF MarkersBefore(g, i - 1) = 0 THEN 0
    ELSE CHOOSE j \in 1..(i - 1) : IsMarker(g[j]) /\ \A k \in (j + 1)..(i - 1) : ~IsMarker(g[k])

DayOfRow(g, i) == IF LastMarker(g, i) = 0 THEN "" ELSE g[LastMarker(g, i)].dayName

RECURSIVE SlotsUnder(_, _, _)
\* The times of the free rows among the first n rows of g that stand under
\* the marker labelled d, in document order.
SlotsUnder(g, d, n) ==
    IF n = 0 THEN <<>>
    ELSE IF IsFree(g[n]) /\ DayOfRow(g, n) = d THEN Append(SlotsUnder(g, d, n - 1), g[n].time)
         ELSE SlotsUnder(g, d, n - 1)

\* The marker rows are labelled Monday, Tuesday, ... in this order, none twice.
InWeekdayOrder(g) ==
    \A i \in 1..Len(g) :
        IsMarker(g[i]) =>
            /\ InRange(days, MarkersBefore(g, i - 1))
            /\ g[i].dayName = At(days, MarkersBefore(g, i - 1))

\* The free rows of g that come after its first marker row.
FreeRowsAfterFirstMarker(g) == {i \in 1..Len(g) : IsFree(g[i]) /\ MarkersBefore(g, i) > 0}

ScenarioGrid == <<Marker("Monday"), Free("09:15"), Subject("10:15"), Free("11:15")>>

NoDuplicates(s) == \A i, j \in 1..Len(s) : i # j => s[i] # s[j]

\* The records the aggregation loop has folded so far.
Folded == SubSeq(timetableList, 1, aggIdx - 1)

\* The day and time of every bucket of a table.
Buckets(table) == UNION {{<<d, t>> : t \in DOMAIN table[d]} : d \in DOMAIN table}

C2_SentinelSetsError ==
    (pc = "rows" /\ \E i \in 1..Len(grid) : ~IsMarker(grid[i]) /\ MarkersBefore(grid, i) = 0) =>
        /\ timetable.Error = TRUE
        /\ CountFreeTimes(timetable, 1) = Cardinality(FreeRowsAfterFirstMarker(grid))

\* C3 (as claimed): whatever the rows of the grid, the parse of a document
\* never faults.
C3_ParserNeverFaults == pc # "panic"

\* C4 (as claimed): once the bootstrap GET has failed the run is over: no room
\* POST, no aggregation, no JSON and no ASCII output.
C4_FailedBootstrapStops ==
    (~page.received /\ pc \notin {"visit", "get"}) =>
        /\ pc = "exit"
        /\ sent = <<>>
        /\ ~output.json /\ ~output.ascii

\* C5 (as claimed): a room request that failed (it completed without a
\* Timetable) does not end the run.
C5_RoomErrorNotFatal == (completed > Len(timetableList)) => pc # "exit"

\* C6 (as claimed): no bucket of freeRoomTable holds a room twice, whatever
\* the documents.
C6_NoRoomTwice ==
    \A b \in Buckets(freeRoomTable) : NoDuplicates(freeRoomTable[b[1]][b[2]])

\* The folded records list no time twice under a day and have pairwise
\* different Room strings.
FoldedDistinct ==
    /\ \A i \in 1..Len(Folded) : \A d \in Range(days) : NoDuplicates(MapGet(Folded[i].FreeTimes, d))
    /\ \A i, j \in 1..Len(Folded) : i # j => Folded[i].Room # Folded[j].Room

\* C6 (amended): when no folded Timetable lists a time twice under one day
\* and no two folded Timetables have the same Room string, no bucket of
\* freeRoomTable holds a room twice.
C6_NoRoomTwiceWhenDistinct == FoldedDistinct => C6_NoRoomTwice

C6_Witness ==
    /\ FoldedDistinct
    /\ Len(Folded) = 2
    /\ \E b \in Buckets(freeRoomTable) : Len(freeRoomTable[b[1]][b[2]]) = 2

\* C7: at most one request is outstanding; a room POST is outstanding only
\* after the landing page was received; and the k+1-th POST has been issued
\* only when the first k room requests have returned, each with its response
\* parsed and its Timetable appended, or failed.
C7_OneRequestAtATime ==
    /\ Cardinality(inflight) <= 1
    /\ \A r \in inflight : r.method = "POST" => page.received
    /\ Len(sent) > 0 => page.received
    /\ Len(sent) <= completed + 1
    /\ pc \in {"rows", "options"} => inflight = {}
    /\ pc = "options" => Len(sent) = completed

C7_Witness ==
    /\ pc = "post"
    /\ Len(sent) = 2
    /\ completed = 1
    /\ Len(timetableList) = 1
    /\ inflight = {[method |-> "POST", n |-> 2]}

RECURSIVE MatchingOptions(_, _)
\* The room options that match the pattern, in page order.
MatchingOptions(b, options) ==
    IF options = <<>> THEN <<>>
    ELSE IF Head(options) \in roomRegexp(b) THEN <<Head(options)>> \o MatchingOptions(b, Tail(options))
         ELSE MatchingOptions(b, Tail(options))

\* C8: every room POST carries exactly one CboLocation value, the room option
\* being dispatched, and on every other field the same values as the first
\* POST: the fixed fields with their fixed values, the tokens and the week.
C8_OnlyLocationChanges ==
    \A i \in 1..Len(sent) :
        /\ MapGet(sent[i].body, "CboLocation") = <<sent[i].room>>
        /\ sent[i].room = MatchingOptions(build, page.options)[i]
        /\ \A k \in Fields \ {"CboLocation"} : MapGet(sent[i].body, k) = MapGet(sent[1].body, k)
        /\ \A k \in FixedFields : MapGet(sent[i].body, k) = InitialQueryParams[k]

C8_Witness ==
    /\ Len(sent) = 2
    /\ sent[1].room = "IT101"
    /\ sent[2].room = "IT102"
    /\ sent[2].body["CboLocation"] = <<"IT102">>
    /\ sent[2].body["__VIEWSTATE"] = sent[1].body["__VIEWSTATE"]

Occurrences(s, x) == Cardinality({i \in 1..Len(s) : s[i] = x})

RECURSIVE BucketOf(_, _, _, _)
\* The rooms of the first n records of list that are free on day d at time t,
\* in list order, each as often as its record lists t under d.
BucketOf(list, d, t, n) ==
    IF n = 0 THEN <<>>
    ELSE BucketOf(list, d, t, n - 1)
         \o [i \in 1..Occurrences(MapGet(list[n].FreeTimes, d), t) |-> list[n].Room]

\* C9: the records of timetableList stand in dispatch order, and every bucket
\* of freeRoomTable holds the rooms of the folded records that are free at
\* that day and time in that order, not sorted.
C9_BucketsInDispatchOrder ==
    /\ \A i, j \in 1..Len(origin) : i < j => origin[i] < origin[j]
    /\ Len(origin) = Len(timetableList)
    /\ \A b \in Buckets(freeRoomTable) \cup (Range(days) \X Range(times)) :
          MapGet(MapGet(freeRoomTable, b[1]), b[2]) = BucketOf(timetableList, b[1], b[2], Len(Folded))

C9_Witness ==
    /\ Len(sent) = 2
    /\ sent[1].room = "IT101"
    /\ sent[2].room = "IT102"
    /\ MapGet(MapGet(freeRoomTable, "Monday"), "09:15") = <<"IT101", "IT102">>

\* C10: the Timetable of every scanned document holds as many free-slot
\* entries, over all days, as the grid has rows that are neither marker nor
\* subject rows and come after the first marker row.
C10_FreeSlotCount ==
    pc = "rows" =>
        /\ CountFreeTimes(timetable, 1) = Cardinality(FreeRowsAfterFirstMarker(grid))
        /\ DOMAIN timetable.FreeTimes \subseteq Range(days)

C10_Witness ==
    /\ pc = "rows"
    /\ MarkersBefore(grid, Len(grid)) > Len(days)
    /\ CountFreeTimes(timetable, 1) >= 1

\* C11 (as claimed): every answered room POST gives exactly one Timetable:
\* once the option callback of a request has ended, timetableList holds one
\* record for each document received, never none.
C11_OneTimetablePerResponse ==
    pc \in {"options", "aggregate", "ascii", "done"} => Len(timetableList) = responses

\* A header cell of the current response renders empty.
HeaderHasEmptyCell == header.date = <<>> \/ header.room = <<>> \/ header.week = <<>>

\* C12: a document with an empty header cell gets Error = TRUE and is parsed
\* on: each of Date, Room and Week whose cell is not empty is extracted from
\* it, and the grid is scanned, its free rows recorded under their day.
C12_EmptyHeaderCell ==
    (pc = "rows" /\ HeaderHasEmptyCell) =>
        /\ timetable.Error = TRUE
        /\ header.date # <<>> => InRange(header.date, 1) /\ timetable.Date = At(header.date, 1)
        /\ header.room # <<>> => InRange(header.room, 2) /\ timetable.Room = At(header.room, 2)
        /\ header.week # <<>> => InRange(header.week, 2) /\ timetable.Week = At(header.week, 2)
        /\ \A d \in Range(days) : MapGet(timetable.FreeTimes, d) = SlotsUnder(grid, d, Len(grid))

C12_Witness ==
    /\ pc = "rows"
    /\ header = Header(<<>>, RoomCell("IT101"), WeekCell)
    /\ grid = ScenarioGrid
    /\ timetable.Error = TRUE
    /\ timetable.Room = "IT101"
    /\ timetable.Week = "27"
    /\ MapGet(timetable.FreeTimes, "Monday") = <<"09:15", "11:15">>

\* A free row of the rows scanned so far stands before every marker row.
SentinelViolated == \E i \in 1..Len(grid) : IsFree(grid[i]) /\ MarkersBefore(grid, i) = 0

\* C13: Error is TRUE exactly when the header had an empty cell or a free
\* row came before the first marker row among the rows scanned so far, so it
\* is never cleared while more rows are scanned; and with Error set, every
\* free row that follows a marker row is in the slot list of its day: there
\* are as many slots as such rows.
C13_ErrorDoesNotShortCircuit ==
    pc = "rows" =>
        /\ timetable.Error = (HeaderHasEmptyCell \/ SentinelViolated)
        /\ timetable.Error =>
            /\ \A i \in FreeRowsAfterFirstMarker(grid) :
                  Contains(MapGet(timetable.FreeTimes, DayOfRow(grid, i)), grid[i].time)
            /\ CountFreeTimes(timetable, 1) = Cardinality(FreeRowsAfterFirstMarker(grid))

C13_Witness ==
    /\ pc = "rows"
    /\ ~HeaderHasEmptyCell
    /\ grid = <<Free("09:15"), Marker("Monday"), Free("10:15")>>
    /\ timetable.Error = TRUE
    /\ timetable.FreeTimes["Monday"] = <<"10:15">>

\* The records of a list with the Error flag taken off.
ClearError(list) == [i \in 1..Len(list) |-> [list[i] EXCEPT !.Error = FALSE]]

\* C14: the table folded so far is the table the same records give with
\* their Error flags cleared, every slot of a folded record that carries
\* Error has its room in the bucket of that day and time, and of the four
\* counters only errorCount depends on the flag: it counts the flagged records.
C14_ErrorRecordsAreFolded ==
    LET clean == Aggregate(ClearError(Folded))
    IN  /\ freeRoomTable = clean.table
        /\ counters = [clean.counters EXCEPT
                          !.errorCount = Cardinality({i \in 1..Len(Folded) : Folded[i].Error})]
        /\ \A i \in 1..Len(Folded) :
              Folded[i].Error =>
                  \A d \in DOMAIN Folded[i].FreeTimes :
                      \A k \in 1..Len(Folded[i].FreeTimes[d]) :
                          Contains(MapGet(MapGet(freeRoomTable, d), Folded[i].FreeTimes[d][k]),
                                   Folded[i].Room)

C14_Witness ==
    /\ Len(Folded) = 2
    /\ Folded[1].Error /\ ~Folded[2].Error
    /\ counters.errorCount = 1
    /\ Folded[1].FreeTimes = Folded[2].FreeTimes
    /\ \E b \in Buckets(freeRoomTable) :
          freeRoomTable[b[1]][b[2]] = <<Folded[1].Room, Folded[2].Room>>

\* C15: in every state the day keys of the Timetable being built, of every
\* record of timetableList and of freeRoomTable are among the five weekday
\* names, whatever the rows of the grid (a row labelled with any other text
\* is not a marker row).
C15_WeekdayKeysOnly ==
    /\ DOMAIN timetable.FreeTimes \subseteq Range(days)
    /\ \A i \in 1..Len(timetableList) : DOMAIN timetableList[i].FreeTimes \subseteq Range(days)
    /\ DOMAIN freeRoomTable \subseteq Range(days)

C15_Witness ==
    /\ Len(timetableList) = 1
    /\ DOMAIN timetableList[1].FreeTimes = {"Monday", "Friday"}
    /\ DOMAIN freeRoomTable = {"Monday", "Friday"}

\* Two tables merged: for every day and time, the bucket of the first
\* followed by the bucket of the second.
MergeTables(ta, tb) ==
    [d \in (DOMAIN ta) \cup (DOMAIN tb) |->
        [t \in (DOMAIN MapGet(ta, d)) \cup (DOMAIN MapGet(tb, d)) |->
            MapGet(MapGet(ta, d), t) \o MapGet(MapGet(tb, d), t)]]

AddCounters(ca, cb) ==
    [timetableCount |-> ca.timetableCount + cb.timetableCount,
     errorCount |-> ca.errorCount + cb.errorCount,
     emptyTimetableCount |-> ca.emptyTimetableCount + cb.emptyTimetableCount,
     freeTimesCount |-> ca.freeTimesCount + cb.freeTimesCount]

\* Aggregating a \o b gives the merge of the aggregates of a and of b.
FoldOfConcatenation(a, b) ==
    LET ab == Aggregate(a \o b)
        aa == Aggregate(a)
        bb == Aggregate(b)
    IN  /\ ab.table = MergeTables(aa.table, bb.table)
        /\ ab.counters = AddCounters(aa.counters, bb.counters)

\* C16: while the loop runs, what it has computed is the aggregate of the
\* records folded so far and, for every way of cutting these records into a
\* list A followed by a list B, the table of A \o B is the bucket-wise
\* concatenation of the tables of A and B and its counters are the sums of
\* theirs; the same holds of the whole list followed by itself.
C16_FoldOfConcatenation ==
    pc = "aggregate" =>
        /\ freeRoomTable = Aggregate(Folded).table
        /\ counters = Aggregate(Folded).counters
        /\ \A k \in 0..Len(Folded) :
              FoldOfConcatenation(SubSeq(Folded, 1, k), SubSeq(Folded, k + 1, Len(Folded)))
        /\ aggIdx > Len(timetableList) => FoldOfConcatenation(timetableList, timetableList)

C16_Witness ==
    /\ pc = "aggregate"
    /\ aggIdx > Len(timetableList)
    /\ Len(timetableList) = 2
    /\ timetableList[1].Room = "IT101"
    /\ timetableList[2].Room = "IT102"
    /\ MapGet(MapGet(Aggregate(<<timetableList[1]>>).table, "Monday"), "09:15") = <<"IT101">>
    /\ MapGet(MapGet(Aggregate(<<timetableList[2]>>).table, "Monday"), "09:15") = <<"IT102", "IT102">>
    /\ MapGet(MapGet(freeRoomTable, "Monday"), "09:15") = <<"IT101", "IT102", "IT102">>
    /\ counters.freeTimesCount = 3

RECURSIVE SumLens(_, _)
\* The sum of the lengths of the lists m holds under the keys of K.
SumLens(m, K) ==
    IF K = {} THEN 0
    ELSE LET k == CHOOSE x \in K : TRUE
         IN  Len(m[k]) + SumLens(m, K \ {k})

RECURSIVE SlotsOfRecords(_, _)
\* The slots of the first n records of list, over the weekdays.
SlotsOfRecords(list, n) ==
    IF n = 0 THEN 0
    ELSE SlotsOfRecords(list, n - 1)
         + SumLens(list[n].FreeTimes, (DOMAIN list[n].FreeTimes) \cap Range(days))

RECURSIVE RoomsOfTable(_, _)
\* The lengths of all room lists of table under the days of D, summed.
RoomsOfTable(table, D) ==
    IF D = {} THEN 0
    ELSE LET d == CHOOSE x \in D : TRUE
         IN  SumLens(table[d], DOMAIN table[d]) + RoomsOfTable(table, D \ {d})

\* The aggregation loop has run over the whole list.
Aggregated == pc \in {"aggregate", "ascii", "done"} /\ aggIdx > Len(timetableList)

\* C17: after aggregation timetableCount is the length of timetableList,
\* errorCount the number of records with Error, emptyTimetableCount the
\* number with Empty, and freeTimesCount both the number of slots of all
\* records over the weekdays and the number of room entries of freeRoomTable.
C17_CountersAfterAggregation ==
    Aggregated =>
        /\ counters.timetableCount = Len(timetableList)
        /\ counters.errorCount = Cardinality({i \in 1..Len(timetableList) : timetableList[i].Error})
        /\ counters.emptyTimetableCount =
              Cardinality({i \in 1..Len(timetableList) : timetableList[i].Empty})
        /\ counters.freeTimesCount = SlotsOfRecords(timetableList, Len(timetableList))
        /\ counters.freeTimesCount = RoomsOfTable(freeRoomTable, DOMAIN freeRoomTable)

C17_Witness ==
    /\ Aggregated
    /\ pc = "done"
    /\ counters = [timetableCount |-> 2, errorCount |-> 1, emptyTimetableCount |-> 1,
                   freeTimesCount |-> 3]

\* The CboWeeks values a session gets for a week text and an offset.
WeeksFor(week, offset) == MapGet(AddWeekWith(InitialQueryParams, week, offset), "CboWeeks")

\* C18: once the landing page is read, roomPostQueryParams holds exactly one
\* CboWeeks value and every POST body carries it: the selected week plus
\* weekOffset when the week text is an integer, the text itself when it is
\* not; and when the GET is out, for the offsets -1 and 1, the value is as
\* the conversion and the sum give it ("34" and -1 give "33").
C18_SubmittedWeek ==
    /\ page.received =>
          LET weeks == MapGet(roomPostQueryParams, "CboWeeks")
          IN  /\ Len(weeks) = 1
              /\ ~AtoiOk(page.week) => weeks[1] = page.week
              /\ AtoiOk(page.week) => AtoiOk(weeks[1]) /\ Atoi(weeks[1]) = Atoi(page.week) + weekOffset
              /\ page.week = <<"3", "4">> => weeks[1] = <<"3", "4">>
              /\ \A i \in 1..Len(sent) : MapGet(sent[i].body, "CboWeeks") = weeks
    /\ pc = "get" =>
          /\ WeeksFor(<<"3", "4">>, -1) = <<<<"3", "3">>>>
          /\ WeeksFor(<<"1", "0">>, -1) = <<<<"9">>>>
          /\ WeeksFor(<<"0">>, -1) = <<<<"-", "1">>>>
          /\ WeeksFor(<<"+", "7">>, 1) = <<<<"8">>>>
          /\ WeeksFor(<<"-", "1">>, 1) = <<<<"0">>>>
          /\ WeeksFor(<<"a", "b">>, -1) = <<<<"a", "b">>>>
          /\ WeeksFor(<<"3", "a">>, -1) = <<<<"3", "a">>>>
          /\ WeeksFor(<<>>, -1) = <<<<>>>>

C18_Witness ==
    /\ page.received
    /\ page.week = <<"a", "b">>
    /\ Len(timetableList) = 1
    /\ sent[1].body["CboWeeks"] = <<<<"a", "b">>>>
    /\ pc = "done"

\* C19: for the rows scanned so far, Empty is FALSE exactly when one of them
\* is a subject row (no day label, subject cell not empty); it is TRUE for a
\* new Timetable and, the rows only growing, never goes back to TRUE; and
\* every slot recorded is the time of a free row, none that of a subject row.
C19_EmptyClearedBySubjectRows ==
    pc = "rows" =>
        /\ timetable.Empty = ~(\E i \in 1..Len(grid) : IsSubject(grid[i]))
        /\ \A d \in DOMAIN timetable.FreeTimes :
              \A k \in 1..Len(timetable.FreeTimes[d]) :
                  /\ \E i \in 1..Len(grid) : IsFree(grid[i]) /\ grid[i].time = timetable.FreeTimes[d][k]
                  /\ timetable.FreeTimes[d][k] # Subject("10:15").time

C19_Witness ==
    /\ pc = "rows"
    /\ grid = <<Marker("Monday"), Subject("10:15"), Free("09:15"), Subject("10:15")>>
    /\ timetable.Empty = FALSE
    /\ timetable.FreeTimes["Monday"] = <<"09:15">>

\* The rooms of the POSTs issued, in order.
SentRooms == [i \in 1..Len(sent) |-> sent[i].room]

\* C20 (as claimed): the POSTs issued are, in order, for the first room
\* options that match the pattern, and once the run has left the body
\* handler of the landing page there is one POST for every matching option.
C20_OneRequestPerMatchingOption ==
    /\ Len(sent) <= Len(MatchingOptions(build, page.options))
    /\ \A i \in 1..Len(sent) : sent[i].room = MatchingOptions(build, page.options)[i]
    /\ (page.received /\ pc \in {"aggregate", "ascii", "done", "exit", "panic"}) =>
          SentRooms = MatchingOptions(build, page.options)

\* The values of the hidden inputs of the landing page named k, in page order.
TokenValues(k) ==
    LET Named(in) == in.name = k
        named == SelectSeq(page.hidden, Named)
    IN  [i \in 1..Len(named) |-> named[i].value]

\* C21: every room POST body has a token field exactly when the landing page
\* has a hidden input of that name, with the page's value, and has the ten
\* fixed fields with their fixed values; and when the option loop has ended,
\* every matching option has been dispatched, whatever tokens were missing.
C21_MissingTokenOmitted ==
    /\ \A i \in 1..Len(sent) :
          /\ \A k \in TokenFields :
                /\ k \in DOMAIN sent[i].body <=> TokenValues(k) # <<>>
                /\ MapGet(sent[i].body, k) = TokenValues(k)
          /\ \A k \in FixedFields : MapGet(sent[i].body, k) = InitialQueryParams[k]
    /\ (page.received /\ pc \in {"aggregate", "ascii", "done"}) =>
          SentRooms = MatchingOptions(build, page.options)

C21_Witness ==
    /\ page.hidden = <<ViewState, EventValidation>>
    /\ pc = "done"
    /\ Len(sent) = 1
    /\ DOMAIN sent[1].body = Fields \ {"__VIEWSTATEGENERATOR"}
    /\ Len(timetableList) = 1

\* main() is in or past the aggregation loop.
AggregationStarted == pc \in {"aggregate", "ascii", "done"}

\* The aggregation starts with no request outstanding and every room request
\* returned.
C22_AfterAllRequests == AggregationStarted => (inflight = {} /\ completed = Len(sent))

\* Once started, the aggregation is not entered again and timetableList does
\* not change.
C22_OnceOnly ==
    [][AggregationStarted =>
          /\ pc' \in {"aggregate", "ascii", "done", "panic"}
          /\ aggIdx' >= aggIdx
          /\ timetableList' = timetableList]_vars

\* C22 (as claimed): the aggregation runs once, after the bootstrap GET and
\* every room request have finished, nothing is appended to timetableList
\* afterwards, and once the landing page is received the aggregation is
\* eventually reached.
C22_AggregatorRunsOnceAfterAll ==
    /\ []C22_AfterAllRequests
    /\ C22_OnceOnly
    /\ (page.received ~> AggregationStarted)

\* The records the documents of the pipeline specification give, each parsed
\* on its own.
SampleRecords == {ParseDocument(h, g).tt : h \in Headers, g \in SampleGrids}

\* C23: whatever was parsed before, the record being built and the day
\* cursor are those the current document gives when parsed on its own from
\* a new Timetable and a cursor of -1, the cursor is -1 before the first row,
\* and every record of timetableList is the record of one document parsed
\* on its own.
C23_ParseKeepsNoState ==
    /\ pc = "rows" =>
          LET st == ParseDocument(header, grid)
          IN  /\ timetable = st.tt
              /\ currentDay = st.currentDay
              /\ grid = <<>> => currentDay = -1
    /\ \A i \in 1..Len(timetableList) : timetableList[i] \in SampleRecords

C23_Witness ==
    /\ pc = "rows"
    /\ grid = ScenarioGrid
    /\ Len(timetableList) = 1
    /\ timetable = timetableList[1]
    /\ currentDay = 0

RECURSIVE SlotsByCount(_, _)
\* The free rows among the first n rows of g that have marker rows before
\* them, each filed in document order under the weekday whose number is the
\* number of these marker rows.
SlotsByCount(g, n) ==
    IF n = 0 THEN EmptyMap
    ELSE IF IsFree(g[n]) /\ MarkersBefore(g, n) \in 1..Len(days)
         THEN MapAppend(SlotsByCount(g, n - 1), days[MarkersBefore(g, n)], g[n].time)
         ELSE SlotsByCount(g, n - 1)

\* C24: whatever the labels of the marker rows, the k-th weekday holds the
\* times of the free rows that have exactly k marker rows before them, and
\* the cursor counts the marker rows; two Monday markers and a free row give
\* a slot under Tuesday and none under Monday; and a marker row adds no slot
\* and leaves Empty and Error alone: the slots are times of free rows, Empty
\* is cleared by the subject rows only and Error, the header being well
\* formed, set by the free rows before the first marker only.
C24_DayByMarkerCount ==
    pc = "rows" =>
        /\ timetable.FreeTimes = SlotsByCount(grid, Len(grid))
        /\ currentDay = MarkersBefore(grid, Len(grid)) - 1
        /\ grid = <<Marker("Monday"), Marker("Monday"), Free("09:15")>> =>
              /\ DOMAIN timetable.FreeTimes = {"Tuesday"}
              /\ timetable.FreeTimes["Tuesday"] = <<"09:15">>
        /\ timetable.Empty = (\A i \in 1..Len(grid) : IsMarker(grid[i]) \/ grid[i].subject = "")
        /\ timetable.Error =
              (\E i \in 1..Len(grid) : IsFree(grid[i]) /\ \A j \in 1..i : ~IsMarker(grid[j]))

C24_Witness ==
    /\ pc = "rows"
    /\ grid = <<Marker("Monday"), Free("09:15"), Marker("Monday"), Free("11:15"), Marker("Monday")>>
    /\ timetable.FreeTimes["Monday"] = <<"09:15">>
    /\ timetable.FreeTimes["Tuesday"] = <<"11:15">>
    /\ currentDay = 2

\* C25 (as claimed): for a response whose header cells are not empty,
\* whatever their number of tokens, reading the header does not fault, and
\* it leaves Date at token 1 of the date cell, Room and Week at token 2 of
\* their cells and Error FALSE.
C25_HeaderExtractionNeverFaults ==
    (header # NoHeader /\ grid = <<>> /\ ~HeaderHasEmptyCell) =>
        /\ pc # "panic"
        /\ pc = "rows" =>
              /\ timetable.Date = At(header.date, 1)
              /\ timetable.Room = At(header.room, 2)
              /\ timetable.Week = At(header.week, 2)
              /\ timetable.Error = FALSE

\* C26 (as claimed): every room of every bucket of freeRoomTable is the
\* CboLocation value of a POST that was sent, and none is the empty string.
C26_RoomsAreDispatched ==
    \A b \in Buckets(freeRoomTable) :
        \A i \in 1..Len(freeRoomTable[b[1]][b[2]]) :
            /\ freeRoomTable[b[1]][b[2]][i] \in Range(SentRooms)
            /\ freeRoomTable[b[1]][b[2]][i] # ""

\* C27 (as claimed): every time key of freeRoomTable is in the times list,
\* so that the row index looked up is never -1, the run does not fault once
\* the JSON file is written, and every cell of the grid holds the rooms of
\* its bucket in bucket order.
C27_AsciiStageCompletes ==
    /\ \A b \in Buckets(freeRoomTable) : SliceIndex(times, b[2]) # -1
    /\ output.json => pc # "panic"
    /\ pc = "done" =>
          \A b \in Buckets(freeRoomTable) :
              output.cells[<<SliceIndex(times, b[2]), 1 + SliceIndex(days, b[1])>>]
                  = freeRoomTable[b[1]][b[2]]

====
